---- MODULE Spec2Model ----
(***************************************************************************)
(* jwk-keygen (src/main.go): the key generators KeygenSig and KeygenEnc,   *)
(* the exclusive file writer writeNewFile, the output file names and the   *)
(* invocation main.                                                        *)
(*                                                                         *)
(* Four specifications share the module:                                   *)
(*   SpecKeygen  calls of KeygenSig / KeygenEnc with arbitrary arguments   *)
(*   SpecWriter  sequences of writeNewFile calls on one file system        *)
(*   SpecNamer   the file name main derives for an artifact               *)
(*   Spec        one invocation of main, step by step                      *)
(***************************************************************************)
EXTENDS Integers, Sequences, FiniteSets, TLC

VARIABLES
    kcall,      \* SpecKeygen: the last generator call [fn, alg, bits, rand]
    kret,       \* SpecKeygen: what that call gave back
    fs,         \* the file system: path -> [content, perm]; DOMAIN = existing paths
    prevfs,     \* SpecWriter: the file system before the last writeNewFile call
    wcall,      \* SpecWriter: the last writeNewFile call and what the OS did in it
    wret,       \* SpecWriter: the outcome of that call [err, opened, n, closes]
    changed,    \* SpecWriter: path -> number of calls that changed the path
    wcalled,    \* SpecWriter: whether writeNewFile was called yet
    artifact,   \* SpecNamer: an artifact (use, alg, kid, kind, public)
    fname,      \* SpecNamer: the file name derived for it ("" before)
    clash,      \* SpecNamer: the other artifacts that get the same file name
    args,       \* main: the parsed flags
    pc,         \* main: the position in main
    kid,        \* main: *kid (rewritten by --kid-rand)
    keys,       \* main: pubKey, privKey as the generator returned them
    docs,       \* main: pubJS, privJS, pubJSJWKS, privJSJWKS
    stdout,     \* main: what fmt.Printf / fmt.Println printed, in order
    fatal,      \* main: the message of the app.Fatal* call that ended main
    attempts,   \* main: the writeNewFile calls made, in order
    created     \* main: the files this invocation created, in order

vars == <<kcall, kret, fs, prevfs, wcall, wret, changed, wcalled, artifact,
          fname, clash,
          args, pc, kid, keys, docs, stdout, fatal, attempts, created>>

keygenVars == <<kcall, kret>>
writerVars == <<prevfs, wcall, wret, changed, wcalled>>
namerVars  == <<artifact, fname, clash>>
mainVars   == <<args, pc, kid, keys, docs, stdout, fatal, attempts, created>>

Nil == "nil"

(***************************************************************************)
(* Algorithm identifiers (the --alg enumeration).                          *)
(***************************************************************************)
\* The values of --alg listed under the comment sig, and under the comment enc.
SigEnum == {"ES256", "ES384", "ES512", "EdDSA",
            "RS256", "RS384", "RS512", "PS256", "PS384", "PS512"}
EncEnum == {"RSA1_5", "RSA-OAEP", "RSA-OAEP-256",
            "ECDH-ES", "ECDH-ES+A128KW", "ECDH-ES+A192KW", "ECDH-ES+A256KW"}
AlgEnum == SigEnum \cup EncEnum
UseEnum == {"enc", "sig"}

\* The case lists of the generators' switches.
SigCurveAlgs == {"ES256", "ES384", "ES512", "EdDSA"}
SigRSAAlgs   == {"RS256", "RS384", "RS512", "PS256", "PS384", "PS512"}
\* The RSA case list of KeygenEnc with a signature identifier in it.
C4_EncRSAAlgsWithRS256 == {"RSA1_5", "RSA-OAEP", "RSA-OAEP-256", "RS256"}
EncRSAAlgs   == {"RSA1_5", "RSA-OAEP", "RSA-OAEP-256"}
EncECDHAlgs  == {"ECDH-ES", "ECDH-ES+A128KW", "ECDH-ES+A192KW", "ECDH-ES+A256KW"}

\* Strings a caller of the generators may pass that are in neither family.
OtherAlgs == {"", "HS256", "dir", "es256"}
AlgArgs   == AlgEnum \cup OtherAlgs

\* Requested bit sizes (an int; negative values are representable).
BitsArgs == {-2048, -1, 0, 1, 255, 256, 257, 384, 512, 521, 522, 1024, 2047,
             2048, 2049, 3072, 4096}

(***************************************************************************)
(* Library generators.  Each draws from rand.Reader; randOK = FALSE is a   *)
(* read error of the random source, on which the library returns a nil     *)
(* key together with the error.                                            *)
(***************************************************************************)
RandErr == "RandomSourceFailure"

\* The nil key (a nil pointer, or an interface holding nothing).
NilKey == [kty |-> "nil", crv |-> "", size |-> 0, part |-> ""]

P256 == [Name |-> "P-256", BitSize |-> 256]
P384 == [Name |-> "P-384", BitSize |-> 384]
P521 == [Name |-> "P-521", BitSize |-> 521]

ecdsaGenerateKey(crv, randOK) ==
    IF randOK
    THEN [key |-> [kty |-> "EC", crv |-> crv.Name, size |-> crv.BitSize,
                   part |-> "private"],
          err |-> Nil]
    ELSE [key |-> NilKey, err |-> RandErr]

rsaGenerateKey(randOK, nbits) ==
    IF randOK
    THEN [key |-> [kty |-> "RSA", crv |-> "", size |-> nbits, part |-> "private"],
          err |-> Nil]
    ELSE [key |-> NilKey, err |-> RandErr]

ed25519GenerateKey(randOK) ==
    IF randOK
    THEN [pub  |-> [kty |-> "OKP", crv |-> "Ed25519", size |-> 256, part |-> "public"],
          key  |-> [kty |-> "OKP", crv |-> "Ed25519", size |-> 256, part |-> "private"],
          err  |-> Nil]
    ELSE [pub |-> NilKey, key |-> NilKey, err |-> RandErr]

\* A call that came back with (pub, priv, err).
Return(pub, priv, err) == [returned |-> TRUE, pub |-> pub, priv |-> priv, err |-> err]

\* A call that did not come back: a run-time panic unwound it.
Panic == [returned |-> FALSE, pub |-> NilKey, priv |-> NilKey, err |-> Nil]

\* The statement  return key.Public(), key, err  for an *ecdsa.PrivateKey or *rsa.PrivateKey:
\* Public() returns &priv.PublicKey, which dereferences the receiver, so
\* on a nil key the return statement panics before anything is returned.
ReturnPublicOf(r) ==
    IF r.key = NilKey
    THEN Panic
    ELSE Return([r.key EXCEPT !.part = "public"], r.key, r.err)

\* The errors.New values of the generators, by their messages.
ErrUnsupportedKeySize   == "this alg does not support arbitrary key length"
ErrKeyTooShort          == "too short key for RSA alg, 2048+ is required"
ErrUnknownCurveSize     == "unknown elliptic curve bit length, use one of 256, 384, 521"
ErrUnknownAlgSig        == "unknown alg for use = sig"
ErrUnknownAlgEnc        == "unknown alg for use = enc"

\* keylen with the label of ES512 taken for its size.
C1_keylen512(alg) ==
    CASE alg = "ES256" -> 256
      [] alg = "ES384" -> 384
      [] alg = "ES512" -> 512
      [] alg = "EdDSA" -> 256

\* The keylen map of KeygenSig.
keylen(alg) ==
    CASE alg = "ES256" -> 256
      [] alg = "ES384" -> 384
      [] alg = "ES512" -> 521
      [] alg = "EdDSA" -> 256

\* rsaBits taking every non-positive request for the default.
C2_rsaBitsNonPositive(nbits) == IF nbits <= 0 THEN 2048 ELSE nbits

\* The RSA size rule: 0 stands for 2048.
rsaBits(nbits) == IF nbits = 0 THEN 2048 ELSE nbits

\* The second switch of KeygenSig: the generator of each algorithm.
KeygenSigGenerate(alg, nbits, randOK) ==
    CASE alg = "ES256" -> ReturnPublicOf(ecdsaGenerateKey(P256, randOK))
      [] alg = "ES384" -> ReturnPublicOf(ecdsaGenerateKey(P384, randOK))
      [] alg = "ES512" -> ReturnPublicOf(ecdsaGenerateKey(P521, randOK))
      [] alg = "EdDSA" ->
            LET r == ed25519GenerateKey(randOK) IN Return(r.pub, r.key, r.err)
      [] alg \in SigRSAAlgs -> ReturnPublicOf(rsaGenerateKey(randOK, nbits))
      [] OTHER -> Return(NilKey, NilKey, ErrUnknownAlgSig)

KeygenSig(alg, nbits, randOK) ==
    IF alg \in SigCurveAlgs
    THEN IF nbits # 0 /\ nbits # keylen(alg)
         THEN Return(NilKey, NilKey, ErrUnsupportedKeySize)
         ELSE KeygenSigGenerate(alg, nbits, randOK)
    ELSE IF alg \in SigRSAAlgs
    THEN IF rsaBits(nbits) < 2048
         THEN Return(NilKey, NilKey, ErrKeyTooShort)
         ELSE KeygenSigGenerate(alg, rsaBits(nbits), randOK)
    ELSE KeygenSigGenerate(alg, nbits, randOK)

\* The default case of the inner switch of KeygenEnc: no curve.
NoCurve == [Name |-> "", BitSize |-> 0]

\* ecdhCurve taking 512 for P-521 as well.
C3_ecdhCurve512(nbits) ==
    CASE nbits = 0 \/ nbits = 256 -> P256
      [] nbits = 384 -> P384
      [] nbits = 521 \/ nbits = 512 -> P521
      [] OTHER -> NoCurve

\* The inner switch of KeygenEnc: the curve of a requested size.
ecdhCurve(nbits) ==
    CASE nbits = 0 \/ nbits = 256 -> P256
      [] nbits = 384 -> P384
      [] nbits = 521 -> P521
      [] OTHER -> NoCurve

KeygenEnc(alg, nbits, randOK) ==
    IF alg \in EncRSAAlgs
    THEN IF rsaBits(nbits) < 2048
         THEN Return(NilKey, NilKey, ErrKeyTooShort)
         ELSE ReturnPublicOf(rsaGenerateKey(randOK, rsaBits(nbits)))
    ELSE IF alg \in EncECDHAlgs
    THEN IF ecdhCurve(nbits) = NoCurve
         THEN Return(NilKey, NilKey, ErrUnknownCurveSize)
         ELSE ReturnPublicOf(ecdsaGenerateKey(ecdhCurve(nbits), randOK))
    ELSE Return(NilKey, NilKey, ErrUnknownAlgEnc)

(***************************************************************************)
(* writeNewFile.  A file system maps each existing path to its content (a  *)
(* sequence of bytes) and the mode it was created with (the perm argument  *)
(* of the creating open).  What the operating system does in one call is   *)
(* the record os: openErr (a failure of the open other than the path       *)
(* existing), n and writeErr (what f.Write returns), closeErr (what        *)
(* f.Close returns).                                                       *)
(***************************************************************************)
ErrExist      == "file exists"
ErrShortWrite == "short write"

Exists(fsys, path) == path \in DOMAIN fsys

NewFile(perm) == [content |-> <<>>, perm |-> perm]

\* os.OpenFile without O_EXCL: an existing file is opened as it is.
C6_OpenFileNoExcl(fsys, filename, perm, openErr) ==
    IF Exists(fsys, filename) THEN [err |-> Nil, fs |-> fsys]
    ELSE IF openErr # Nil THEN [err |-> openErr, fs |-> fsys]
    ELSE [err |-> Nil,
          fs  |-> [q \in DOMAIN fsys \cup {filename} |->
                      IF q = filename THEN NewFile(perm) ELSE fsys[q]]]

\* os.OpenFile(filename, O_WRONLY|O_CREATE|O_EXCL, perm).
OpenFile(fsys, filename, perm, openErr) ==
    IF Exists(fsys, filename) THEN [err |-> ErrExist, fs |-> fsys]
    ELSE IF openErr # Nil THEN [err |-> openErr, fs |-> fsys]
    ELSE [err |-> Nil,
          fs  |-> [q \in DOMAIN fsys \cup {filename} |->
                      IF q = filename THEN NewFile(perm) ELSE fsys[q]]]

\* f.Write(data) putting the first n bytes of data at the start of the file.
Write(fsys, filename, data, n) ==
    [fsys EXCEPT ![filename].content = SubSeq(data, 1, n) \o SubSeq(@, n + 1, Len(@))]

\* The error after the write: a short count without an error is ErrShortWrite.
AfterWrite(data, n, writeErr) ==
    IF writeErr = Nil /\ n < Len(data) THEN ErrShortWrite ELSE writeErr

\* A close whose error always becomes the result.
C7_AfterCloseAlways(err, closeErr) == closeErr

\* The error after the close: the close error, unless an error came before.
AfterClose(err, closeErr) == IF err = Nil THEN closeErr ELSE err

writeNewFile(fsys, filename, data, perm, os) ==
    LET o == OpenFile(fsys, filename, perm, os.openErr) IN
    IF o.err # Nil
    THEN [fs |-> fsys, err |-> o.err, opened |-> FALSE, n |-> 0, closes |-> 0]
    ELSE [fs     |-> Write(o.fs, filename, data, os.n),
          err    |-> AfterClose(AfterWrite(data, os.n, os.writeErr), os.closeErr),
          opened |-> TRUE,
          n      |-> os.n,
          closes |-> 1]

\* What the operating system may do in a call that writes data.
OsChoices(data) ==
    [openErr : {Nil, "permission denied"}, n : 0..Len(data),
     writeErr : {Nil, "input/output error"}, closeErr : {Nil, "close failed"}]

\* The modes main passes: 0444 for the public files, 0400 for the private ones.
PermPublic  == 292

\* The mode of the public files passed for the private ones too.
C9_PermWorldReadable == PermPublic

PermPrivate == 256

(***************************************************************************)
(* The output file names of main.                                          *)
(***************************************************************************)
\* fmt.Sprintf("jwk_%s_%s_%s", *use, *alg, *kid), and the same with "jwks".
SprintfFname(kind, use, alg, keyid) == kind \o "_" \o use \o "_" \o alg \o "_" \o keyid

PubFile(stem)  == stem \o "-pub.json"
PrivFile(stem) == stem \o ".json"

\* The file name of an artifact [use, alg, kid, kind, public].
FileName(t) ==
    LET stem == SprintfFname(t.kind, t.use, t.alg, t.kid) IN
    IF t.public THEN PubFile(stem) ELSE PrivFile(stem)

(***************************************************************************)
(* The pieces of main: the random key id, the validity check of the        *)
(* generated pair, the serialization.                                      *)
(***************************************************************************)
\* base32.StdEncoding: the alphabet, and the encoding of 5 bytes (40 bits,
\* 8 characters of 5 bits each, no padding).
Base32Alphabet ==
    <<"A", "B", "C", "D", "E", "F", "G", "H", "I", "J", "K", "L", "M", "N", "O", "P",
      "Q", "R", "S", "T", "U", "V", "W", "X", "Y", "Z", "2", "3", "4", "5", "6", "7">>

BitOf(bytes, i) == (bytes[((i - 1) \div 8) + 1] \div (2 ^ (7 - ((i - 1) % 8)))) % 2

Base32Char(bytes, k) ==
    Base32Alphabet[1 + 16 * BitOf(bytes, 5 * k - 4) + 8 * BitOf(bytes, 5 * k - 3)
                     + 4 * BitOf(bytes, 5 * k - 2) + 2 * BitOf(bytes, 5 * k - 1)
                     + BitOf(bytes, 5 * k)]

RECURSIVE Base32From(_, _)
Base32From(bytes, k) ==
    IF k > (8 * Len(bytes)) \div 5 THEN ""
    ELSE Base32Char(bytes, k) \o Base32From(bytes, k + 1)

EncodeToString(bytes) == Base32From(bytes, 1)

\* jose.JSONWebKey{Key, KeyID, Algorithm, Use}.
JSONWebKey(key, keyid, alg, use) ==
    [Key |-> key, KeyID |-> keyid, Algorithm |-> alg, Use |-> use]

\* JSONWebKey.IsPublic and JSONWebKey.Valid, on the keys the generators make.
IsPublic(jwk) == jwk.Key.part = "public"
Valid(jwk) ==
    /\ jwk.Key # NilKey
    /\ \/ jwk.Key.kty = "EC" /\ jwk.Key.crv \in {"P-256", "P-384", "P-521"}
       \/ jwk.Key.kty = "RSA" /\ jwk.Key.size > 0
       \/ jwk.Key.kty = "OKP" /\ jwk.Key.crv = "Ed25519"

\* The condition under which main gives up with "invalid keys were generated".
InvalidKeys(priv, pub) ==
    IsPublic(priv) \/ ~IsPublic(pub) \/ ~Valid(priv) \/ ~Valid(pub)

\* A serialized document is a sequence of pieces: the members kid, alg and
\* use, then the key material, private (with the private members) or public.
KeyMaterial(key) == key.part \o " " \o key.kty \o " " \o key.crv
PrivateMaterial ==
    {KeyMaterial([kty |-> t, crv |-> c, size |-> 0, part |-> "private"]) :
        t \in {"EC", "RSA", "OKP"}, c \in {"", "P-256", "P-384", "P-521", "Ed25519"}}
PublicMaterial ==
    {KeyMaterial([kty |-> t, crv |-> c, size |-> 0, part |-> "public"]) :
        t \in {"EC", "RSA", "OKP"}, c \in {"", "P-256", "P-384", "P-521", "Ed25519"}}

MarshalJSON(jwk) ==
    <<"kid=" \o jwk.KeyID \o " alg=" \o jwk.Algorithm \o " use=" \o jwk.Use,
      KeyMaterial(jwk.Key)>>

\* json.Marshal(jose.JSONWebKeySet{Keys: []jose.JSONWebKey{jwk}}).
MarshalJWKS(jwk) ==
    LET d == MarshalJSON(jwk) IN <<"keys " \o d[1], d[2]>>

\* formatJSON: json.Indent puts white space between the pieces.
formatJSON(b) ==
    [i \in 1..(2 * Len(b) - 1) |-> IF i % 2 = 1 THEN b[(i + 1) \div 2] ELSE "    "]

\* string(b), as fmt.Println prints a document.
RECURSIVE String(_)
String(b) == IF b = <<>> THEN "" ELSE Head(b) \o String(Tail(b))

\* app.FatalIfError that goes on after an error.
C10_FatalIfErrorGoesOn(err, msg, next) == [pc |-> next, fatal |-> Nil]

\* app.FatalIfError(err, msg): on an error print msg and exit, else go on.
FatalIfError(err, msg, next) ==
    IF err # Nil THEN [pc |-> "exit", fatal |-> msg] ELSE [pc |-> next, fatal |-> Nil]

(***************************************************************************)
(* SpecKeygen: the generators called with any algorithm string, any        *)
(* requested size, and a random source that delivers or fails.             *)
(***************************************************************************)
NoCall == [fn |-> "none", alg |-> "", bits |-> 0, rand |-> TRUE]
NoRet  == [returned |-> FALSE, pub |-> NilKey, priv |-> NilKey, err |-> "not called"]

\* What main and the writer hold while only the generators are exercised.
IdleFs     == [p \in {} |-> NewFile(0)]
IdleWCall  == [filename |-> "", data |-> <<>>, perm |-> 0,
               openErr |-> Nil, n |-> 0, writeErr |-> Nil, closeErr |-> Nil]
IdleChanged == [p \in {} |-> 0]
IdleWRet   == [err |-> Nil, opened |-> FALSE, n |-> 0, closes |-> 0]
IdleName   == [use |-> "sig", alg |-> "ES256", kid |-> "a", kind |-> "jwk",
               public |-> TRUE]
IdleArgs   == [use |-> "sig", alg |-> "ES256", bits |-> 0, kid |-> "",
               kidRand |-> FALSE, jwks |-> FALSE, format |-> FALSE]
IdleKeys   == [pub |-> NilKey, priv |-> NilKey]
IdleDocs   == [pubJS |-> <<>>, privJS |-> <<>>, pubJSJWKS |-> <<>>, privJSJWKS |-> <<>>]

KeygenIdle ==
    /\ kcall = NoCall /\ kret = NoRet
WriterIdle ==
    /\ prevfs = IdleFs /\ wcall = IdleWCall /\ wret = IdleWRet
    /\ changed = IdleChanged /\ wcalled = FALSE
NamerIdle ==
    /\ artifact = IdleName /\ fname = "" /\ clash = {}
MainIdle ==
    /\ args = IdleArgs /\ pc = "idle" /\ kid = "" /\ keys = IdleKeys
    /\ docs = IdleDocs /\ stdout = <<>> /\ fatal = Nil
    /\ attempts = <<>> /\ created = <<>>

InitKeygen ==
    /\ KeygenIdle /\ WriterIdle /\ NamerIdle /\ MainIdle
    /\ fs = IdleFs

CallKeygenSig ==
    \E a \in AlgArgs, b \in BitsArgs, r \in BOOLEAN :
        /\ kcall = NoCall
        /\ kcall' = [fn |-> "KeygenSig", alg |-> a, bits |-> b, rand |-> r]
        /\ kret' = KeygenSig(a, b, r)
        /\ UNCHANGED <<fs, writerVars, namerVars, mainVars>>

CallKeygenEnc ==
    \E a \in AlgArgs, b \in BitsArgs, r \in BOOLEAN :
        /\ kcall = NoCall
        /\ kcall' = [fn |-> "KeygenEnc", alg |-> a, bits |-> b, rand |-> r]
        /\ kret' = KeygenEnc(a, b, r)
        /\ UNCHANGED <<fs, writerVars, namerVars, mainVars>>

NextKeygen == CallKeygenSig \/ CallKeygenEnc

SpecKeygen == InitKeygen /\ [][NextKeygen]_vars

\* The errors with which the generators reject their arguments.
ValidationErrs == {ErrUnsupportedKeySize, ErrKeyTooShort, ErrUnknownCurveSize,
                   ErrUnknownAlgSig, ErrUnknownAlgEnc}

\* The call was rejected with error e: it returned e and no key.
Rejected(e) == kret = [returned |-> TRUE, pub |-> NilKey, priv |-> NilKey, err |-> e]

\* The call returned the pair of a key of type kty, curve crv and size n.
Generated(kty, crv, n) ==
    /\ kret.returned /\ kret.err = Nil
    /\ kret.priv = [kty |-> kty, crv |-> crv, size |-> n, part |-> "private"]
    /\ kret.pub  = [kty |-> kty, crv |-> crv, size |-> n, part |-> "public"]

\* The arguments passed validation and the generator of (kty, crv, n) ran:
\* it generated that pair if the random source delivered, and if the source
\* failed no key came back and no validation error was reported.
Accepted(kty, crv, n) ==
    IF kcall.rand
    THEN Generated(kty, crv, n)
    ELSE /\ kret.pub = NilKey /\ kret.priv = NilKey
         /\ kret.err \notin ValidationErrs

\* The fixed size and curve of each curve-based signature algorithm.
C1_Fixed ==
    [ES256 |-> [size |-> 256, kty |-> "EC",  crv |-> "P-256"],
     ES384 |-> [size |-> 384, kty |-> "EC",  crv |-> "P-384"],
     ES512 |-> [size |-> 521, kty |-> "EC",  crv |-> "P-521"],
     EdDSA |-> [size |-> 256, kty |-> "OKP", crv |-> "Ed25519"]]

\* C1: for ES256, ES384, ES512 and EdDSA, KeygenSig rejects with
\* UnsupportedKeySize every non-zero size other than the algorithm's fixed
\* size (256, 384, 521, 256), and for size 0 or the fixed size passes
\* validation and generates on the fixed curve (P-256, P-384, P-521,
\* Ed25519): the key pair comes back whenever the random source delivers.
C1_CurveSigSizes ==
    (kcall.fn = "KeygenSig" /\ kcall.alg \in DOMAIN C1_Fixed) =>
        LET f == C1_Fixed[kcall.alg] IN
        IF kcall.bits # 0 /\ kcall.bits # f.size
        THEN Rejected(ErrUnsupportedKeySize)
        ELSE Accepted(f.kty, f.crv, f.size)

C1_Witness ==
    /\ kcall.fn = "KeygenSig" /\ kcall.alg = "ES512" /\ kcall.bits = 521
    /\ kret.returned /\ kret.err = Nil /\ kret.priv.crv = "P-521"

\* C2: for every RSA algorithm of either generator, size 0 generates a
\* 2048-bit key, every other size below 2048 (negative ones included) is
\* rejected with KeyTooShort and no key, and a size of at least 2048 generates
\* a key of exactly that size (whenever the random source delivers).
C2_RSASizes ==
    (\/ kcall.fn = "KeygenSig" /\ kcall.alg \in {"RS256", "RS384", "RS512",
                                                  "PS256", "PS384", "PS512"}
     \/ kcall.fn = "KeygenEnc" /\ kcall.alg \in {"RSA1_5", "RSA-OAEP",
                                                  "RSA-OAEP-256"}) =>
        IF kcall.bits = 0 THEN Accepted("RSA", "", 2048)
        ELSE IF kcall.bits < 2048 THEN Rejected(ErrKeyTooShort)
        ELSE Accepted("RSA", "", kcall.bits)

C2_Witness ==
    /\ kcall.fn = "KeygenEnc" /\ kcall.alg = "RSA-OAEP" /\ kcall.bits = 0
    /\ kret.returned /\ kret.err = Nil /\ kret.priv.size = 2048

\* C3: for every ECDH-ES algorithm, KeygenEnc accepts exactly the sizes 0,
\* 256, 384 and 521, generating on P-256, P-256, P-384 and P-521, and rejects
\* every other size (512 and negative ones included) with
\* UnsupportedCurveSize and no key.
C3_ECDHSizes ==
    (kcall.fn = "KeygenEnc" /\ kcall.alg \in {"ECDH-ES", "ECDH-ES+A128KW",
                                              "ECDH-ES+A192KW", "ECDH-ES+A256KW"}) =>
        CASE kcall.bits \in {0, 256} -> Accepted("EC", "P-256", 256)
          [] kcall.bits = 384 -> Accepted("EC", "P-384", 384)
          [] kcall.bits = 521 -> Accepted("EC", "P-521", 521)
          [] OTHER -> Rejected(ErrUnknownCurveSize)

C3_Witness ==
    /\ kcall.fn = "KeygenEnc" /\ kcall.alg = "ECDH-ES+A192KW" /\ kcall.bits = 521
    /\ kret.returned /\ kret.err = Nil /\ kret.priv.crv = "P-521"

\* C4: the signature and the encryption identifiers are disjoint; KeygenSig
\* rejects every string that is not a signature identifier, and KeygenEnc
\* every string that is not an encryption identifier, with UnknownAlgorithm
\* and no key, whatever the requested size.
C4_UnknownAlgorithm ==
    /\ SigEnum \cap EncEnum = {}
    /\ (kcall.fn = "KeygenSig" /\ kcall.alg \notin SigEnum) => Rejected(ErrUnknownAlgSig)
    /\ (kcall.fn = "KeygenEnc" /\ kcall.alg \notin EncEnum) => Rejected(ErrUnknownAlgEnc)

C4_Witness ==
    /\ kcall.fn = "KeygenEnc" /\ kcall.alg = "RS256" /\ kcall.bits = 1024
    /\ Rejected(ErrUnknownAlgEnc)

\* C5: every call of KeygenSig or KeygenEnc returns, and a call that ends in
\* an error (a validation error or a failure of the random source) returns
\* the error with both keys unset.
C5_ErrorMeansNoKeys ==
    kcall.fn # "none" =>
        /\ kret.returned
        /\ ~kcall.rand => kret.err # Nil
        /\ kret.err # Nil => (kret.pub = NilKey /\ kret.priv = NilKey)

(***************************************************************************)
(* SpecWriter: writeNewFile called again and again on one file system,     *)
(* some of whose paths exist before the first call.                        *)
(***************************************************************************)
MaxData == 1

WPaths == {"a.json", "b.json"}
WPerms == {PermPublic, PermPrivate}
WData  == UNION {[1..k -> {"x"}] : k \in 0..MaxData}

\* A file that was there before the program ran.
OldFile == [content |-> <<"o", "l", "d">>, perm |-> 420]

InitWriter ==
    /\ KeygenIdle /\ NamerIdle /\ MainIdle
    /\ \E S \in SUBSET WPaths : fs = [p \in S |-> OldFile]
    /\ prevfs = fs
    /\ wcall = IdleWCall /\ wret = IdleWRet
    /\ changed = [p \in WPaths |-> 0]
    /\ wcalled = FALSE

CallWriteNewFile ==
    \E filename \in WPaths, data \in WData, perm \in WPerms :
      \E os \in OsChoices(data) :
        LET r == writeNewFile(fs, filename, data, perm, os) IN
        /\ wcalled' = TRUE
        /\ prevfs' = fs
        /\ fs' = r.fs
        /\ wcall' = [filename |-> filename, data |-> data, perm |-> perm,
                     openErr |-> os.openErr, n |-> os.n,
                     writeErr |-> os.writeErr, closeErr |-> os.closeErr]
        /\ wret' = [err |-> r.err, opened |-> r.opened, n |-> r.n, closes |-> r.closes]
        /\ changed' = [p \in WPaths |->
                          IF Exists(fs, p) # Exists(r.fs, p)
                             \/ (Exists(fs, p) /\ fs[p] # r.fs[p])
                          THEN changed[p] + 1 ELSE changed[p]]
        /\ UNCHANGED <<keygenVars, namerVars, mainVars>>

NextWriter == CallWriteNewFile

SpecWriter == InitWriter /\ [][NextWriter]_vars

\* C6: writeNewFile never overwrites: called on a path that exists it fails
\* with FileAlreadyExists, writes no byte and leaves the whole file system
\* (that file's content and mode included) as it was; no call changes a
\* file that existed before it; and over any sequence of calls a path is
\* changed by at most one call, the one that created it.
C6_NeverOverwrites ==
    /\ (wcalled /\ Exists(prevfs, wcall.filename)) =>
          /\ wret.err = ErrExist /\ wret.n = 0 /\ ~wret.opened
          /\ fs = prevfs
    /\ \A p \in DOMAIN prevfs : Exists(fs, p) /\ fs[p] = prevfs[p]
    /\ \A p \in WPaths : changed[p] <= 1
    /\ \A p \in WPaths : changed[p] = 1 => (Exists(fs, p) /\ fs[p] # OldFile)

C6_Witness ==
    /\ wcalled /\ Exists(prevfs, wcall.filename)
    /\ changed[wcall.filename] = 1 /\ wret.err = ErrExist
    /\ Len(wcall.data) > 0 /\ fs[wcall.filename].content # wcall.data

\* C7: writeNewFile returns success only if it created the file, wrote the
\* whole payload and closed without error; a short count without a write
\* error is ShortWrite; an opened descriptor is closed exactly once on every
\* path (and none is closed when the open failed); the close error is the
\* result exactly when the write was complete and without error, and an
\* earlier write error or ShortWrite is never replaced.
C7_WriteOutcome ==
    wcalled =>
      LET full == wret.n = Len(wcall.data) IN
      /\ wret.err = Nil =>
            /\ ~Exists(prevfs, wcall.filename) /\ Exists(fs, wcall.filename)
            /\ wret.opened /\ full /\ wcall.closeErr = Nil
            /\ fs[wcall.filename].content = wcall.data
      /\ wret.opened => wret.closes = 1
      /\ ~wret.opened => (wret.closes = 0 /\ wret.err # Nil)
      /\ (wret.opened /\ ~full /\ wcall.writeErr = Nil) => wret.err = ErrShortWrite
      /\ (wret.opened /\ wcall.writeErr # Nil) => wret.err = wcall.writeErr
      /\ (wret.opened /\ full /\ wcall.writeErr = Nil) => wret.err = wcall.closeErr

C7_Witness ==
    /\ wcalled /\ wret.opened /\ wret.closes = 1
    /\ wret.n < Len(wcall.data) /\ wcall.writeErr = Nil /\ wcall.closeErr # Nil
    /\ wret.err = ErrShortWrite

(***************************************************************************)
(* SpecNamer: the file name of one artifact, compared with the names of    *)
(* all others.  Key ids are the non-empty strings built from up to         *)
(* MaxKidAtoms of the pieces below; use and algorithm are the pairs under  *)
(* which a key is generated.                                               *)
(***************************************************************************)
MaxKidAtoms == 2

KidAtoms == {"a", "-pub", "_"}

KeyIds == {String(q) : q \in UNION {[1..k -> KidAtoms] : k \in 1..MaxKidAtoms}}

UseAlg == ({"sig"} \X SigEnum) \cup ({"enc"} \X EncEnum)

Artifacts ==
    {[use |-> ua[1], alg |-> ua[2], kid |-> k, kind |-> kd, public |-> pb] :
        ua \in UseAlg, k \in KeyIds, kd \in {"jwk", "jwks"}, pb \in BOOLEAN}

InitNamer ==
    /\ KeygenIdle /\ WriterIdle /\ MainIdle
    /\ fs = IdleFs
    /\ artifact \in Artifacts
    /\ fname = ""
    /\ clash = {}

NameArtifact ==
    /\ fname = ""
    /\ fname' = FileName(artifact)
    /\ clash' = {t \in Artifacts : t # artifact /\ FileName(t) = FileName(artifact)}
    /\ UNCHANGED <<artifact, fs, keygenVars, writerVars, mainVars>>

NextNamer == NameArtifact

SpecNamer == InitNamer /\ [][NextNamer]_vars

\* C8: output file names are collision-free: no other artifact (use,
\* algorithm, key id, kind, public or private) gets the file name of an
\* artifact; in particular the private file of one key id is never the
\* public file of another.
C8_CollisionFree == clash = {}

\* The artifacts that differ from t only in being the public artifact of
\* the key id k where t is the private artifact of k-pub, or the reverse.
C8_PubSuffixTwins(t) ==
    {u \in Artifacts :
        /\ u.use = t.use /\ u.alg = t.alg /\ u.kind = t.kind
        /\ \/ ~t.public /\ u.public /\ t.kid = u.kid \o "-pub"
           \/ t.public /\ ~u.public /\ u.kid = t.kid \o "-pub"}

\* The extent of the collisions of C8 (an invariant of SpecNamer): two
\* distinct artifacts get the same file name exactly when they agree in
\* kind, use and algorithm and one is the private artifact of a key id k-pub
\* while the other is the public artifact of key id k.
C8_CollideOnlyOnPubSuffix ==
    fname # "" => clash = C8_PubSuffixTwins(artifact)

(***************************************************************************)
(* Spec: one invocation of main, from the parsed flags to its end.  pc is  *)
(* the next step; main ends at "done" (it returned), at "exit" (an         *)
(* app.Fatal* call printed a message and exited) or at "panic".            *)
(***************************************************************************)
MainAlgs == {"ES256", "EdDSA", "RS256", "RSA-OAEP", "ECDH-ES"}
MainBits == {0, 1024}
MainKids == {"", "k"}

\* What rand.Read may put into the 5 bytes of a random key id.
RandReads == {<<0, 0, 0, 0, 0>>, <<97, 98, 99, 100, 101>>}

\* The key ids an invocation with these flags may come to use.
KidsOf(a) ==
    IF a.kidRand /\ a.kid = "" THEN {EncodeToString(b) : b \in RandReads}
    ELSE {a.kid} \ {""}

\* The files an invocation with these flags may come to write.
TargetsOf(a) ==
    {FileName([use |-> a.use, alg |-> a.alg, kid |-> k, kind |-> kd, public |-> pb]) :
        k \in KidsOf(a), kd \in {"jwk", "jwks"}, pb \in BOOLEAN}

Init ==
    /\ KeygenIdle /\ WriterIdle /\ NamerIdle
    /\ args \in [use : UseEnum, alg : MainAlgs, bits : MainBits, kid : MainKids,
                  kidRand : BOOLEAN, jwks : BOOLEAN, format : BOOLEAN]
    /\ \/ fs = IdleFs
       \/ \E t \in TargetsOf(args) : fs = [p \in {t} |-> OldFile]
    /\ pc = "kidrand"
    /\ kid = args.kid
    /\ keys = IdleKeys
    /\ docs = IdleDocs
    /\ stdout = <<>>
    /\ fatal = Nil
    /\ attempts = <<>>
    /\ created = <<>>

notMain == <<keygenVars, writerVars, namerVars>>

\* if *kidRand { ... }
KidRand ==
    /\ pc = "kidrand"
    /\ IF ~args.kidRand
       THEN pc' = "keygen" /\ UNCHANGED <<kid, fatal>>
       ELSE IF kid # ""
       THEN /\ pc' = "exit" /\ fatal' = "can't combine --kid and --kid-rand"
            /\ UNCHANGED kid
       ELSE \/ \E b \in RandReads :
                 /\ kid' = EncodeToString(b)
                 /\ pc' = "keygen" /\ UNCHANGED fatal
            \/ LET f == FatalIfError(RandErr, "can't Read() crypto/rand", "keygen") IN
                 /\ pc' = f.pc /\ fatal' = f.fatal /\ UNCHANGED kid
    /\ UNCHANGED <<args, fs, keys, docs, stdout, attempts, created, notMain>>

\* switch *use { ... }; app.FatalIfError(err, "unable to generate key")
Generate ==
    /\ pc = "keygen"
    /\ \E randOK \in BOOLEAN :
         LET r == IF args.use = "sig" THEN KeygenSig(args.alg, args.bits, randOK)
                  ELSE KeygenEnc(args.alg, args.bits, randOK)
             f == FatalIfError(r.err, "unable to generate key", "check")
         IN IF ~r.returned
            THEN pc' = "panic" /\ UNCHANGED <<keys, fatal>>
            ELSE /\ pc' = f.pc /\ fatal' = f.fatal
                 /\ keys' = [pub |-> r.pub, priv |-> r.priv]
    /\ UNCHANGED <<args, fs, kid, docs, stdout, attempts, created, notMain>>

\* if priv.IsPublic() || !pub.IsPublic() || !priv.Valid() || !pub.Valid()
CheckKeys ==
    /\ pc = "check"
    /\ IF InvalidKeys(JSONWebKey(keys.priv, kid, args.alg, args.use),
                      JSONWebKey(keys.pub, kid, args.alg, args.use))
       THEN pc' = "exit" /\ fatal' = "invalid keys were generated"
       ELSE pc' = "marshal" /\ UNCHANGED fatal
    /\ UNCHANGED <<args, fs, kid, keys, docs, stdout, attempts, created, notMain>>

\* The message main prints when the Marshal call of a document fails.
MarshalMsg ==
    [privJS     |-> "can't Marshal private key to JSON",
     pubJS      |-> "can't Marshal public key to JSON",
     privJSJWKS |-> "can't Marshal private key with JWKS to JSON",
     pubJSJWKS  |-> "can't Marshal public key with JWKS to JSON"]

Marshal ==
    /\ pc = "marshal"
    /\ LET priv == JSONWebKey(keys.priv, kid, args.alg, args.use)
           pub  == JSONWebKey(keys.pub, kid, args.alg, args.use)
           fmt(b) == IF args.format THEN formatJSON(b) ELSE b
           made == IF args.jwks THEN {"privJS", "pubJS", "privJSJWKS", "pubJSJWKS"}
                   ELSE {"privJS", "pubJS"}
           all  == [privJS     |-> fmt(MarshalJSON(priv)),
                    pubJS      |-> fmt(MarshalJSON(pub)),
                    privJSJWKS |-> IF args.jwks THEN fmt(MarshalJWKS(priv)) ELSE <<>>,
                    pubJSJWKS  |-> IF args.jwks THEN fmt(MarshalJWKS(pub)) ELSE <<>>]
       IN \/ /\ docs' = all
             /\ pc' = "output" /\ UNCHANGED fatal
          \/ \E failAt \in made :
               LET f == FatalIfError("marshal error", MarshalMsg[failAt], "output") IN
               /\ pc' = f.pc /\ fatal' = f.fatal
               /\ docs' = IF f.pc = "exit" THEN docs ELSE all
    /\ UNCHANGED <<args, fs, kid, keys, stdout, attempts, created, notMain>>

\* if *kid == "" { fmt.Printf ... }
PrintDocs ==
    /\ pc = "output" /\ kid = ""
    /\ stdout' = stdout
          \o <<"==> jwk_" \o args.alg \o "-pub.json <==", String(docs.pubJS),
               "==> jwk_" \o args.alg \o ".json <==", String(docs.privJS)>>
          \o (IF args.jwks
              THEN <<"==> jwks_" \o args.alg \o "-pub.json <==", String(docs.pubJSJWKS),
                     "==> jwks_" \o args.alg \o ".json <==", String(docs.privJSJWKS)>>
              ELSE <<>>)
    /\ pc' = "done"
    /\ UNCHANGED <<args, fs, kid, keys, docs, fatal, attempts, created, notMain>>

\* err = writeNewFile(name, data, perm); app.FatalIfError(err, msg);
\* fmt.Printf(written)
WriteStep(name, data, perm, msg, written, next) ==
    \E os \in OsChoices(data) :
        LET r == writeNewFile(fs, name, data, perm, os)
            f == FatalIfError(r.err, msg \o name, next)
        IN /\ fs' = r.fs
           /\ attempts' = Append(attempts, [name |-> name, err |-> r.err])
           /\ created' = IF r.opened
                          THEN Append(created, [name |-> name, perm |-> perm])
                          ELSE created
           /\ pc' = f.pc /\ fatal' = f.fatal
           /\ stdout' = IF f.pc = "exit" THEN stdout
                         ELSE Append(stdout, written \o name)
           /\ UNCHANGED <<args, kid, keys, docs, notMain>>

WritePubJWK ==
    /\ pc = "output" /\ kid # ""
    /\ WriteStep(PubFile(SprintfFname("jwk", args.use, args.alg, kid)),
                 docs.pubJS, PermPublic,
                 "can't write public key with JWK to file ",
                 "Written public key with JWK to ", "writePrivJWK")

WritePrivJWK ==
    /\ pc = "writePrivJWK"
    /\ WriteStep(PrivFile(SprintfFname("jwk", args.use, args.alg, kid)),
                 docs.privJS, PermPrivate,
                 "cant' write private key with JWK to file ",
                 "Written private key with JWK to ",
                 IF args.jwks THEN "writePubJWKS" ELSE "done")

WritePubJWKS ==
    /\ pc = "writePubJWKS"
    /\ WriteStep(PubFile(SprintfFname("jwks", args.use, args.alg, kid)),
                 docs.pubJSJWKS, PermPublic,
                 "can't write public key with JWKS to file ",
                 "Written public key with JWKS to ", "writePrivJWKS")

WritePrivJWKS ==
    /\ pc = "writePrivJWKS"
    /\ WriteStep(PrivFile(SprintfFname("jwks", args.use, args.alg, kid)),
                 docs.privJSJWKS, PermPrivate,
                 "cant' write private key with JWKS to file ",
                 "Written private key with JWKS to ", "done")

Next ==
    \/ KidRand
    \/ Generate
    \/ CheckKeys
    \/ Marshal
    \/ PrintDocs
    \/ WritePubJWK
    \/ WritePrivJWK
    \/ WritePubJWKS
    \/ WritePrivJWKS

Spec == Init /\ [][Next]_vars

\* Whether a file content holds private-key material, public-key material.
HoldsPrivate(content) == \E i \in 1..Len(content) : content[i] \in PrivateMaterial
HoldsPublic(content)  == \E i \in 1..Len(content) : content[i] \in PublicMaterial

\* C9: every file the invocation has created still exists with the mode
\* passed to the open that created it; that mode is 0400 if the file holds
\* private-key material and 0444 if it holds public-key material only; the
\* files created are distinct, at most four, at most two without --jwks, and
\* none when no key id is supplied or generated.
C9_ModesAndCount ==
    /\ \A i \in 1..Len(created) :
          /\ Exists(fs, created[i].name)
          /\ fs[created[i].name].perm = created[i].perm
          /\ HoldsPrivate(fs[created[i].name].content) => created[i].perm = 256
          /\ (HoldsPublic(fs[created[i].name].content)
                /\ ~HoldsPrivate(fs[created[i].name].content)) => created[i].perm = 292
          /\ \A j \in 1..Len(created) : created[j].name = created[i].name => j = i
    /\ Len(created) <= 4
    /\ ~args.jwks => Len(created) <= 2
    /\ (args.kid = "" /\ ~args.kidRand) => created = <<>>

C9_Witness ==
    /\ pc = "done" /\ Len(created) = 4
    /\ HoldsPrivate(fs[created[4].name].content) /\ created[4].perm = 256
    /\ HoldsPublic(fs[created[3].name].content) /\ created[3].perm = 292

\* The files of an invocation in the order of the pipeline: public JWK,
\* private JWK, public JWKS, private JWKS.
C10_Order ==
    <<"jwk_" \o args.use \o "_" \o args.alg \o "_" \o kid \o "-pub.json",
      "jwk_" \o args.use \o "_" \o args.alg \o "_" \o kid \o ".json",
      "jwks_" \o args.use \o "_" \o args.alg \o "_" \o kid \o "-pub.json",
      "jwks_" \o args.use \o "_" \o args.alg \o "_" \o kid \o ".json">>

====
